---- MODULE Spec2Model ----
(***************************************************************************)
(* RecipeSmith (src/src/lib.rs): the recipe catalog (RecipeBook), the      *)
(* slot inventories (PlayerInventory), item transfer and the plugin's      *)
(* lock-guarded operations (RecipeSmith), as state machines.               *)
(*                                                                         *)
(* Representation.  Option<T> is a sequence of length 0 (None) or 1        *)
(* (Some).  A HashMap is a function whose DOMAIN is the set of keys        *)
(* present.  A Vec is a sequence.  A Crafter {name} is its name.  An Item  *)
(* {name, model, meta_tags} is its name: every Item the code builds has    *)
(* model None and no tags, and no code path reads either field.            *)
(***************************************************************************)
EXTENDS Naturals, Integers, Sequences, FiniteSets, TLC

VARIABLES
    recipe_book,    \* RecipeBook {recipes, crafters}
    inventory,      \* the caller's HashMap<String, Ingredient> handed to craft
    last,           \* the last RecipeBook call: operation, craft's argument, outcome
    crafted,        \* per recipe name: crafts that returned Some since its last add
    added_with,     \* per recipe name: the cook_count it was last added with
    add_log,        \* per crafter: the recipe names added under it, in call order
    from_inventory, \* transfer_item's source PlayerInventory (its slots map)
    to_inventory,   \* transfer_item's destination PlayerInventory (its slots map)
    transfer_last,  \* the last transfer_item call: item name and result
    slots,          \* PlayerInventory.slots of an inventory whose methods are called
    slots_last,     \* the last call on it: method, slot, result; num_slots at creation
    player_inventories, \* RecipeSmith.player_inventories: player id -> PlayerInventory
    lock,           \* per RwLock: its mode, its holders and its FIFO wait queue
    pc,             \* per task: where it stands in the operation it runs
    local,          \* per task: the operation's arguments and local variables
    smith_last      \* what the step just taken returned: task, operation, value, events

book_vars == <<recipe_book, inventory, last, crafted, added_with, add_log>>
transfer_vars == <<from_inventory, to_inventory, transfer_last>>
slot_vars == <<slots, slots_last>>
smith_vars == <<player_inventories, lock, pc, local, smith_last>>
book_ghost == <<inventory, last, crafted, added_with, add_log>>
vars == <<recipe_book, inventory, last, crafted, added_with, add_log,
          from_inventory, to_inventory, transfer_last, slots, slots_last,
          player_inventories, lock, pc, local, smith_last>>

(***************************************************************************)
(* Bounds of the model.                                                    *)
(***************************************************************************)
\* u32 arithmetic is modulo 2^32; the model keeps the wrap-around at a
\* modulus small enough to enumerate (quantities range over 0..U32Modulus-1).
U32Modulus == 4
\* cook_count is capped: no craft is started on a recipe that reached MaxCook.
MaxCook == 10
\* add_recipe calls recorded in a run of the index specification.
MaxAdds == 3
\* Slots of the inventories handed to transfer_item.
NumSlots == 2
\* Slots of the inventory a joining player gets where tasks run concurrently
\* (on_game_event passes 20).
SmithSlots == 1

MasteryThreshold == 10

None == <<>>
Some(x) == <<x>>

RecipeNames == {"Bread", "Dough"}
IngredientNames == {"Flour", "Water"}
CrafterNames == {"Oven", "Furnace"}

Ingredient(n, q, c) == [name |-> n, quantity |-> q, recipe_craftable |-> c]

Recipe(n, ings, out, crs, t, cc) ==
    [name |-> n, ingredients |-> ings, outcome |-> out, crafters |-> crs,
     base_cook_time |-> t, cook_count |-> cc]

(***************************************************************************)
(* Recipe                                                                  *)
(***************************************************************************)
increment_cook_count(recipe) ==
    [recipe EXCEPT !.cook_count = recipe.cook_count + 1]

\* is_mastered with the comparison off by one.
is_mastered_strict(recipe) == recipe.cook_count > MasteryThreshold

is_mastered(recipe) == recipe.cook_count >= MasteryThreshold

(***************************************************************************)
(* RecipeBook                                                              *)
(***************************************************************************)
RecipeBook_new == [recipes |-> <<>>, crafters |-> <<>>]

\* HashMap::insert
MapInsert(m, k, v) == [x \in (DOMAIN m) \cup {k} |-> IF x = k THEN v ELSE m[x]]

\* The index entry with the name put at the front instead of pushed at the back.
IndexPushFront(index, crafter, name) ==
    MapInsert(index, crafter,
              <<name>> \o (IF crafter \in DOMAIN index THEN index[crafter] ELSE <<>>))

\* self.crafters.entry(crafter).or_insert_with(Vec::new).push(name)
IndexPush(index, crafter, name) ==
    MapInsert(index, crafter,
              Append(IF crafter \in DOMAIN index THEN index[crafter] ELSE <<>>, name))

RECURSIVE IndexPushAll(_, _, _, _)
IndexPushAll(index, crs, i, name) ==
    IF i > Len(crs) THEN index
    ELSE IndexPushAll(IndexPush(index, crs[i], name), crs, i + 1, name)

add_recipe(book, recipe) ==
    [recipes  |-> MapInsert(book.recipes, recipe.name, recipe),
     crafters |-> IndexPushAll(book.crafters, recipe.crafters, 1, recipe.name)]

get_recipe(book, name) ==
    IF name \in DOMAIN book.recipes THEN Some(book.recipes[name]) ELSE None

RECURSIVE FilterMapRecipes(_, _, _)
FilterMapRecipes(book, names, i) ==
    IF i > Len(names) THEN <<>>
    ELSE get_recipe(book, names[i]) \o FilterMapRecipes(book, names, i + 1)

get_recipes_for_crafter(book, crafter) ==
    IF crafter \in DOMAIN book.crafters
    THEN FilterMapRecipes(book, book.crafters[crafter], 1)
    ELSE <<>>

\* can_craft without the test of the held ingredient's recipe_craftable flag.
can_craft_ignoring_flag(book, recipe_name, inv) ==
    /\ recipe_name \in DOMAIN book.recipes
    /\ \A i \in 1..Len(book.recipes[recipe_name].ingredients) :
          LET ingredient == book.recipes[recipe_name].ingredients[i] IN
          /\ ingredient.name \in DOMAIN inv
          /\ inv[ingredient.name].quantity >= ingredient.quantity

\* can_craft asking for exactly the required quantity instead of at least it.
can_craft_exact(book, recipe_name, inv) ==
    /\ recipe_name \in DOMAIN book.recipes
    /\ \A i \in 1..Len(book.recipes[recipe_name].ingredients) :
          LET ingredient == book.recipes[recipe_name].ingredients[i] IN
          /\ ingredient.name \in DOMAIN inv
          /\ inv[ingredient.name].recipe_craftable
          /\ inv[ingredient.name].quantity = ingredient.quantity

can_craft(book, recipe_name, inv) ==
    LET r == get_recipe(book, recipe_name) IN
    IF r # None
    THEN \A i \in 1..Len(r[1].ingredients) :
            LET ingredient == r[1].ingredients[i] IN
            IF ingredient.name \in DOMAIN inv
            THEN inv[ingredient.name].recipe_craftable
                 /\ inv[ingredient.name].quantity >= ingredient.quantity
            ELSE FALSE
    ELSE FALSE

\* The consumption loop of craft.  `inv_ingredient.quantity -= ingredient.quantity`
\* on a u32: when the held quantity is smaller, a build with overflow checks
\* panics at that subtraction and a build without them wraps around.
RECURSIVE consume_ingredients(_, _, _, _)
consume_ingredients(ingredients, i, inv, overflow_checks) ==
    IF i > Len(ingredients)
    THEN [inventory |-> inv, panicked |-> FALSE, underflow |-> FALSE]
    ELSE LET ingredient == ingredients[i] IN
         IF ingredient.name \notin DOMAIN inv
         THEN consume_ingredients(ingredients, i + 1, inv, overflow_checks)
         ELSE LET held == inv[ingredient.name].quantity IN
              IF held >= ingredient.quantity
              THEN consume_ingredients(ingredients, i + 1,
                       [inv EXCEPT ![ingredient.name].quantity = held - ingredient.quantity],
                       overflow_checks)
              ELSE IF overflow_checks
              THEN [inventory |-> inv, panicked |-> TRUE, underflow |-> TRUE]
              ELSE LET rest == consume_ingredients(ingredients, i + 1,
                                   [inv EXCEPT ![ingredient.name].quantity =
                                        (held + U32Modulus - ingredient.quantity) % U32Modulus],
                                   overflow_checks)
                   IN [rest EXCEPT !.underflow = TRUE]

\* craft up to the sleep: the can_craft test, the recipe clone, the consumption.
craft_consume(book, recipe_name, inv, overflow_checks) ==
    IF can_craft(book, recipe_name, inv)
    THEN LET recipe == get_recipe(book, recipe_name)[1]
             used == consume_ingredients(recipe.ingredients, 1, inv, overflow_checks)
         IN [accepted |-> TRUE, recipe |-> Some(recipe), inventory |-> used.inventory,
             panicked |-> used.panicked, underflow |-> used.underflow]
    ELSE [accepted |-> FALSE, recipe |-> None, inventory |-> inv,
          panicked |-> FALSE, underflow |-> FALSE]

\* craft after the sleep: the cook_count update of the stored recipe.
craft_update(book, recipe_name) ==
    IF recipe_name \in DOMAIN book.recipes
    THEN [book EXCEPT !.recipes[recipe_name] = increment_cook_count(book.recipes[recipe_name])]
    ELSE book

\* RecipeBook::craft as one call (the borrow `&mut self` is exclusive for the
\* whole call, the sleep included).
craft(book, recipe_name, inv, overflow_checks) ==
    LET c == craft_consume(book, recipe_name, inv, overflow_checks) IN
    IF ~c.accepted
    THEN [book |-> book, inventory |-> inv, result |-> None,
          panicked |-> FALSE, underflow |-> FALSE]
    ELSE IF c.panicked
    THEN [book |-> book, inventory |-> c.inventory, result |-> None,
          panicked |-> TRUE, underflow |-> TRUE]
    ELSE [book |-> craft_update(book, recipe_name), inventory |-> c.inventory,
          result |-> Some(c.recipe[1].outcome),
          panicked |-> FALSE, underflow |-> c.underflow]

\* A recipe file: its extension, whether it opens, and its records in order
\* (a record that does not deserialize is BadRecord).
BadRecord == [name |-> "?"]

RECURSIVE AddAll(_, _, _)
AddAll(book, records, i) ==
    IF i > Len(records) THEN book
    ELSE AddAll(add_recipe(book, records[i]), records, i + 1)

RECURSIVE GoodPrefix(_, _)
GoodPrefix(records, i) ==
    IF i > Len(records) \/ records[i] = BadRecord THEN <<>>
    ELSE <<records[i]>> \o GoodPrefix(records, i + 1)

\* The records import_recipes_from_file passes to add_recipe, in order.
ImportedRecords(file) ==
    IF ~file.opens THEN <<>>
    ELSE IF file.ext = "json"
    THEN IF \E i \in 1..Len(file.records) : file.records[i] = BadRecord
         THEN <<>> ELSE file.records
    ELSE IF file.ext = "csv" THEN GoodPrefix(file.records, 1)
    ELSE <<>>

import_recipes_from_file(book, file) ==
    LET added == ImportedRecords(file) IN
    [book |-> AddAll(book, added, 1),
     ok   |-> file.opens /\ file.ext \in {"json", "csv"} /\ added = file.records]

(***************************************************************************)
(* PlayerInventory and RecipeSmith::transfer_item                          *)
(***************************************************************************)
ItemNames == {"Sword", "Bread"}

PlayerInventory_new(num_slots) == [i \in 0..(num_slots - 1) |-> None]

\* The orders in which a HashMap with key set S may be iterated.
IterationOrders(S) ==
    { o \in [1..Cardinality(S) -> S] : \A i, j \in 1..Cardinality(S) : o[i] = o[j] => i = j }

\* The first position of `order` whose slot is in S, or 0.
FirstIn(order, S) ==
    IF \E i \in 1..Len(order) : order[i] \in S
    THEN CHOOSE i \in 1..Len(order) :
            order[i] \in S /\ \A j \in 1..(i - 1) : order[j] \notin S
    ELSE 0

\* The slots of inventory m that hold item x, and its empty slots.
SlotsHolding(m, x) == { i \in DOMAIN m : m[i] = Some(x) }
EmptySlots(m) == { i \in DOMAIN m : m[i] = None }

\* The two loops over from_inventory.slots run over the same unmodified table,
\* hence in the same order; the order itself is the HashMap's.
transfer_item(from, to, item_name, from_order, to_order) ==
    LET taken == FirstIn(from_order, SlotsHolding(from, item_name)) IN
    IF taken = 0
    THEN [from |-> from, to |-> to, result |-> "Err: Item not found in source inventory"]
    ELSE LET from1 == [from EXCEPT ![from_order[taken]] = None]
             dest == FirstIn(to_order, EmptySlots(to))
         IN  IF dest # 0
             THEN [from |-> from1,
                   to |-> [to EXCEPT ![to_order[dest]] = Some(item_name)],
                   result |-> "Ok"]
             ELSE LET back == FirstIn(from_order, EmptySlots(from1)) IN
                  [from |-> IF back # 0
                            THEN [from1 EXCEPT ![from_order[back]] = Some(item_name)]
                            ELSE from1,
                   to |-> to,
                   result |-> "Err: Destination inventory is full"]

\* Inventories of 1..NumSlots slots, each slot empty or holding an item.
Inventories ==
    UNION { [0..(n - 1) -> {None} \cup { Some(x) : x \in ItemNames }] : n \in 1..NumSlots }

TransferIdle ==
    /\ from_inventory = PlayerInventory_new(0)
    /\ to_inventory = PlayerInventory_new(0)
    /\ transfer_last = [op |-> "new", item_name |-> "", result |-> ""]

\* PlayerInventory's accessors.  A slot outside the table is a key like any
\* other to HashMap::get and HashMap::insert.
get_item(m, slot) == IF slot \in DOMAIN m THEN m[slot] ELSE None

add_item(m, slot, item) == MapInsert(m, slot, Some(item))

remove_item(m, slot) ==
    [slots |-> MapInsert(m, slot, None),
     returned |-> IF slot \in DOMAIN m THEN m[slot] ELSE None]

empty_slot(m, slot) == MapInsert(m, slot, None)

SlotsCall(op, slot, returned, num_slots) ==
    [op |-> op, slot |-> slot, returned |-> returned, num_slots |-> num_slots]

SlotsIdle ==
    /\ slots = PlayerInventory_new(0)
    /\ slots_last = SlotsCall("", 0, None, 0)

(***************************************************************************)
(* RecipeSmith: the shared state behind its two tokio RwLocks and the      *)
(* tasks that run its operations.                                          *)
(***************************************************************************)
Tasks == {"t1", "t2"}
Players == {"p1", "p2"}
Locks == {"recipe_book", "player_inventories"}

\* tokio's RwLock is fair: requests queue in FIFO order; the request at the
\* head is granted when the lock is free, or read-held and the request a read.
FreeLock == [mode |-> "free", holders |-> {}, queue |-> <<>>]

Request(l, t, mode) == [l EXCEPT !.queue = Append(l.queue, [task |-> t, mode |-> mode])]

CanGrant(l) ==
    /\ l.queue # <<>>
    /\ \/ l.mode = "free"
       \/ l.mode = "read" /\ Head(l.queue).mode = "read"

Granted(l) ==
    [mode |-> Head(l.queue).mode,
     holders |-> l.holders \cup {Head(l.queue).task},
     queue |-> Tail(l.queue)]

\* Dropping a guard.
Released(l, t) ==
    [l EXCEPT !.holders = l.holders \ {t},
              !.mode = IF l.holders \ {t} = {} THEN "free" ELSE l.mode]

Holds(t, L) == t \in lock[L].holders
Waits(t, L) == \E i \in 1..Len(lock[L].queue) : lock[L].queue[i].task = t

\* A task's locals: the operation and its arguments (player_id, recipe or item
\* or crafter name, recipe), the cloned player_inventory, the inventory_map, and
\* the outcome of the recipe clone craft took.
NoLocal ==
    [op |-> "", player |-> "", name |-> "", recipe |-> None, num_slots |-> 0,
     inv |-> None, map |-> <<>>, outcome |-> None]

\* smith_last after a step at which no operation returned.
NoReturn == [task |-> "", op |-> "", returned |-> None, events |-> <<>>]

SmithIdle ==
    /\ player_inventories = <<>>
    /\ lock = [L \in Locks |-> FreeLock]
    /\ pc = [t \in Tasks |-> "idle"]
    /\ local = [t \in Tasks |-> NoLocal]
    /\ smith_last = NoReturn

(***************************************************************************)
(* The catalog on its own: add_recipe, import_recipes_from_file and craft  *)
(* called on one RecipeBook, with a caller that refills its ingredient map *)
(* between calls.                                                          *)
(***************************************************************************)
Call(op, name, result, panicked, underflow) ==
    [op |-> op, name |-> name, result |-> result,
     panicked |-> panicked, underflow |-> underflow]

\* Recipes the catalog specification adds (none names a crafter, so the
\* crafter index stays empty there).
BookRecipes ==
    { Recipe("Bread", <<Ingredient("Flour", 2, TRUE), Ingredient("Water", 1, TRUE)>>,
             "Bread", <<>>, 1, cc) : cc \in {0, MasteryThreshold} }
    \cup
    { Recipe("Dough", <<Ingredient("Flour", 2, TRUE), Ingredient("Flour", 2, TRUE)>>,
             "Dough", <<>>, 0, cc) : cc \in {0, MasteryThreshold} }

BookRecipe(n, cc) == CHOOSE r \in BookRecipes : r.name = n /\ r.cook_count = cc

BookFiles ==
    { [ext |-> "json", opens |-> TRUE,
       records |-> <<BookRecipe("Bread", 0), BookRecipe("Dough", 0)>>],
      [ext |-> "json", opens |-> TRUE,
       records |-> <<BookRecipe("Bread", MasteryThreshold), BadRecord>>],
      [ext |-> "csv", opens |-> TRUE,
       records |-> <<BookRecipe("Dough", MasteryThreshold), BadRecord, BookRecipe("Bread", 0)>>],
      [ext |-> "txt", opens |-> TRUE, records |-> <<BookRecipe("Bread", 0)>>],
      [ext |-> "json", opens |-> FALSE, records |-> <<BookRecipe("Bread", 0)>>] }

InventoryEntries ==
    { Ingredient("?", q, c) : q \in 0..(U32Modulus - 1), c \in BOOLEAN }

\* Every ingredient map over IngredientNames (an entry is keyed by its name).
BookInventories ==
    UNION { { [n \in D |-> [name |-> n, quantity |-> f[n].quantity,
                            recipe_craftable |-> f[n].recipe_craftable]]
              : f \in [D -> InventoryEntries] } : D \in SUBSET IngredientNames }

\* The ghost bookkeeping of an add_recipe(recipe) call.
RECURSIVE LogPushAll(_, _, _, _)
LogPushAll(log, crs, i, name) ==
    IF i > Len(crs) THEN log
    ELSE LogPushAll([log EXCEPT ![crs[i]] = Append(log[crs[i]], name)], crs, i + 1, name)

RECURSIVE NoteAdds(_, _, _)
NoteAdds(g, records, i) ==
    IF i > Len(records) THEN g
    ELSE NoteAdds([crafted    |-> [g.crafted EXCEPT ![records[i].name] = 0],
                   added_with |-> [g.added_with EXCEPT ![records[i].name] = records[i].cook_count],
                   add_log    |-> LogPushAll(g.add_log, records[i].crafters, 1, records[i].name)],
                  records, i + 1)

Ghost == [crafted |-> crafted, added_with |-> added_with, add_log |-> add_log]

\* The index lists of the crafters a batch of records names stay within MaxAdds.
LogHasRoom(records) ==
    \A c \in CrafterNames : Len(NoteAdds(Ghost, records, 1).add_log[c]) <= MaxAdds

BookInit ==
    /\ recipe_book = RecipeBook_new
    /\ inventory \in BookInventories
    /\ last = Call("new", "", None, FALSE, FALSE)
    /\ crafted = [n \in RecipeNames |-> 0]
    /\ added_with = [n \in RecipeNames |-> 0]
    /\ add_log = [c \in CrafterNames |-> <<>>]
    /\ TransferIdle
    /\ SlotsIdle
    /\ SmithIdle

AddRecipe(recipe) ==
    /\ ~last.panicked
    /\ LogHasRoom(<<recipe>>)
    /\ recipe_book' = add_recipe(recipe_book, recipe)
    /\ last' = Call("add_recipe", "", None, FALSE, FALSE)
    /\ LET g == NoteAdds(Ghost, <<recipe>>, 1) IN
          /\ crafted' = g.crafted
          /\ added_with' = g.added_with
          /\ add_log' = g.add_log
    /\ UNCHANGED <<inventory, transfer_vars, slot_vars, smith_vars>>

ImportRecipesFromFile(file) ==
    /\ ~last.panicked
    /\ LogHasRoom(ImportedRecords(file))
    /\ LET r == import_recipes_from_file(recipe_book, file) IN
          /\ recipe_book' = r.book
          /\ last' = Call("import_recipes_from_file", "",
                          IF r.ok THEN Some("Ok") ELSE Some("Err"), FALSE, FALSE)
    /\ LET g == NoteAdds(Ghost, ImportedRecords(file), 1) IN
          /\ crafted' = g.crafted
          /\ added_with' = g.added_with
          /\ add_log' = g.add_log
    /\ UNCHANGED <<inventory, transfer_vars, slot_vars, smith_vars>>

Craft(recipe_name) ==
    /\ ~last.panicked
    /\ recipe_name \in DOMAIN recipe_book.recipes
          => recipe_book.recipes[recipe_name].cook_count < MaxCook
    /\ \E overflow_checks \in BOOLEAN :
          LET r == craft(recipe_book, recipe_name, inventory, overflow_checks) IN
          /\ recipe_book' = r.book
          /\ inventory' = r.inventory
          /\ last' = Call("craft", recipe_name, r.result, r.panicked, r.underflow)
          /\ crafted' = IF r.result # None
                        THEN [crafted EXCEPT ![recipe_name] = crafted[recipe_name] + 1]
                        ELSE crafted
    /\ UNCHANGED <<added_with, add_log, transfer_vars, slot_vars, smith_vars>>

\* The caller sets one entry of its ingredient map between calls.
Restock(entry) ==
    /\ ~last.panicked
    /\ inventory' = MapInsert(inventory, entry.name, entry)
    /\ last' = Call("restock", "", None, FALSE, FALSE)
    /\ UNCHANGED <<recipe_book, crafted, added_with, add_log, transfer_vars, slot_vars, smith_vars>>

BookNext ==
    \/ \E recipe \in BookRecipes : AddRecipe(recipe)
    \/ \E file \in BookFiles : ImportRecipesFromFile(file)
    \/ \E recipe_name \in RecipeNames : Craft(recipe_name)
    \/ \E n \in IngredientNames, e \in InventoryEntries :
          Restock([e EXCEPT !.name = n])

SpecBook == BookInit /\ [][BookNext]_vars

(***************************************************************************)
(* The crafter index on its own: add_recipe and import_recipes_from_file   *)
(* with recipes that name crafters.                                        *)
(***************************************************************************)
CrafterLists ==
    { <<>>, <<"Oven">>, <<"Furnace">>, <<"Oven", "Furnace">>, <<"Oven", "Oven">> }

IndexRecipes ==
    { Recipe(n, <<>>, n, crs, 0, 0) : n \in RecipeNames, crs \in CrafterLists }

IndexFiles ==
    { [ext |-> "json", opens |-> TRUE,
       records |-> <<Recipe("Bread", <<>>, "Bread", <<"Oven">>, 0, 0),
                     Recipe("Dough", <<>>, "Dough", <<"Oven">>, 0, 0)>>],
      [ext |-> "csv", opens |-> TRUE,
       records |-> <<Recipe("Dough", <<>>, "Dough", <<"Furnace">>, 0, 0), BadRecord>>],
      [ext |-> "json", opens |-> TRUE,
       records |-> <<Recipe("Bread", <<>>, "Bread", <<"Furnace">>, 0, 0), BadRecord>>] }

IndexInit ==
    /\ recipe_book = RecipeBook_new
    /\ inventory = <<>>
    /\ last = Call("new", "", None, FALSE, FALSE)
    /\ crafted = [n \in RecipeNames |-> 0]
    /\ added_with = [n \in RecipeNames |-> 0]
    /\ add_log = [c \in CrafterNames |-> <<>>]
    /\ TransferIdle
    /\ SlotsIdle
    /\ SmithIdle

IndexNext ==
    \/ \E recipe \in IndexRecipes : AddRecipe(recipe)
    \/ \E file \in IndexFiles : ImportRecipesFromFile(file)

SpecIndex == IndexInit /\ [][IndexNext]_vars

(***************************************************************************)
(* Properties of the catalog.                                              *)
(***************************************************************************)
Recipes == recipe_book.recipes

\* What the last step was: every step of the catalog sets `last`.
CraftedNow(n) == last'.op = "craft" /\ last'.name = n

\* The recipe is unknown, or one of its ingredients is missing from the map,
\* held with a false flag, or held in too small a quantity.
Unsatisfied(n, inv) ==
    \/ n \notin DOMAIN Recipes
    \/ \E i \in 1..Len(Recipes[n].ingredients) :
          LET g == Recipes[n].ingredients[i] IN
          \/ g.name \notin DOMAIN inv
          \/ ~inv[g.name].recipe_craftable
          \/ inv[g.name].quantity < g.quantity

RECURSIVE RequiredFrom(_, _, _)
RequiredFrom(ingredients, i, k) ==
    IF i > Len(ingredients) THEN 0
    ELSE (IF ingredients[i].name = k THEN ingredients[i].quantity ELSE 0)
         + RequiredFrom(ingredients, i + 1, k)

\* The amount of ingredient k that recipe n requires.
Required(n, k) == RequiredFrom(Recipes[n].ingredients, 1, k)

\* C1: a craft whose recipe is unknown or whose ingredients are not satisfied
\* returns None and changes neither the ingredient map nor any cook_count.
C1_RejectedCraftChangesNothing ==
    [][\A n \in RecipeNames :
          (CraftedNow(n) /\ Unsatisfied(n, inventory))
          => /\ last'.result = None
             /\ ~last'.panicked
             /\ inventory' = inventory
             /\ DOMAIN recipe_book'.recipes = DOMAIN Recipes
             /\ \A m \in DOMAIN Recipes :
                   recipe_book'.recipes[m].cook_count = Recipes[m].cook_count]_vars

\* A craft of a known recipe was just rejected for its ingredients.
C1_Witness ==
    /\ last.op = "craft"
    /\ last.result = None
    /\ ~last.panicked
    /\ last.name \in DOMAIN Recipes
    /\ Unsatisfied(last.name, inventory)
    /\ "Flour" \in DOMAIN inventory
    /\ inventory["Flour"].quantity = 1

\* C2: a craft whose ingredients are satisfied returns the recipe's outcome,
\* lowers each required ingredient by the required amount, leaves the other
\* entries alone and raises that recipe's cook_count, and no other, by 1.
C2_AcceptedCraftEffect ==
    [][\A n \in RecipeNames :
          (CraftedNow(n) /\ ~Unsatisfied(n, inventory))
          => /\ last'.result = Some(Recipes[n].outcome)
             /\ DOMAIN inventory' = DOMAIN inventory
             /\ \A k \in DOMAIN inventory :
                   /\ inventory'[k].quantity = inventory[k].quantity - Required(n, k)
                   /\ inventory'[k].recipe_craftable = inventory[k].recipe_craftable
                   /\ inventory'[k].name = inventory[k].name
             /\ DOMAIN recipe_book'.recipes = DOMAIN Recipes
             /\ \A m \in DOMAIN Recipes :
                   recipe_book'.recipes[m].cook_count =
                       Recipes[m].cook_count + (IF m = n THEN 1 ELSE 0)]_vars

\* C3: no craft subtracts a required amount from a smaller held quantity.
C3_QuantityFloor == last.op = "craft" => ~last.underflow

\* C4: a recipe added with cook_count 0 and since crafted n times has
\* cook_count n, and is mastered exactly from n = 10 on.
C4_MasteryThreshold ==
    \A n \in DOMAIN Recipes :
       added_with[n] = 0
       => /\ Recipes[n].cook_count = crafted[n]
          /\ is_mastered(Recipes[n]) <=> (crafted[n] >= 10)

\* A recipe added with cook_count 0 has just been crafted for the tenth time.
C4_Witness ==
    \E n \in DOMAIN Recipes :
       /\ added_with[n] = 0
       /\ crafted[n] = 10
       /\ last.op = "craft" /\ last.name = n /\ last.result # None
       /\ is_mastered(Recipes[n])

\* C5: the cook_count stored under a recipe name never decreases, whatever
\* catalog operation runs.
C5_CookCountNeverDecreases ==
    [][\A n \in DOMAIN Recipes :
          /\ n \in DOMAIN recipe_book'.recipes
          /\ recipe_book'.recipes[n].cook_count >= Recipes[n].cook_count]_vars

RECURSIVE NamesOf(_, _)
NamesOf(rs, i) == IF i > Len(rs) THEN <<>> ELSE <<rs[i].name>> \o NamesOf(rs, i + 1)

\* C6: for every crafter, get_recipes_for_crafter returns the recipes added
\* under it, by name, in the order in which they were added under it.
C6_IndexOrder ==
    \A c \in CrafterNames :
       NamesOf(get_recipes_for_crafter(recipe_book, c), 1) = add_log[c]

\* Two recipes were added under Oven, Bread before Dough, and another under
\* Furnace.
C6_Witness ==
    /\ NamesOf(get_recipes_for_crafter(recipe_book, "Oven"), 1) = <<"Bread", "Dough">>
    /\ add_log["Oven"] = <<"Bread", "Dough">>
    /\ Len(add_log["Furnace"]) > 0

\* C20: every recipe get_recipes_for_crafter returns for a crafter lists that
\* crafter, and no two of the recipes it returns have the same name.
C20_IndexSound ==
    \A c \in CrafterNames :
       LET rs == get_recipes_for_crafter(recipe_book, c) IN
       /\ \A i \in 1..Len(rs) : \E j \in 1..Len(rs[i].crafters) : rs[i].crafters[j] = c
       /\ \A i, j \in 1..Len(rs) : rs[i].name = rs[j].name => i = j

(***************************************************************************)
(* can_craft on its own: called on any catalog of the recipes above and    *)
(* any ingredient map.                                                     *)
(***************************************************************************)
CanCraft(recipe_name) ==
    /\ last' = Call("can_craft", recipe_name,
                    Some(can_craft(recipe_book, recipe_name, inventory)), FALSE, FALSE)
    /\ UNCHANGED <<recipe_book, inventory, crafted, added_with, add_log,
                   transfer_vars, slot_vars, smith_vars>>

SupplyNext ==
    \/ \E recipe \in BookRecipes : AddRecipe(recipe)
    \/ \E recipe_name \in RecipeNames : CanCraft(recipe_name)
    \/ \E n \in IngredientNames, e \in InventoryEntries :
          Restock([e EXCEPT !.name = n])

SpecSupply == BookInit /\ [][SupplyNext]_vars

\* Map J holds every ingredient of map I in at least I's quantity.
Supplies(I, J) ==
    \A k \in DOMAIN I : k \in DOMAIN J /\ J[k].quantity >= I[k].quantity

\* The same, with every ingredient that is craftable in I craftable in J.
SuppliesCraftable(I, J) ==
    /\ Supplies(I, J)
    /\ \A k \in DOMAIN I : I[k].recipe_craftable => J[k].recipe_craftable

\* C15 as stated: if can_craft holds of a recipe and the ingredient map, it
\* holds of the recipe and every map with at least the same quantities.
C15_MonotonicInQuantity ==
    \A n \in RecipeNames, J \in BookInventories :
       (can_craft(recipe_book, n, inventory) /\ Supplies(inventory, J))
       => can_craft(recipe_book, n, J)

\* C15: if can_craft holds of a recipe and the ingredient map, it holds of the
\* recipe and every map with at least the same quantities whose ingredients
\* kept their recipe_craftable flag.
C15_MonotonicInSupply ==
    \A n \in RecipeNames, J \in BookInventories :
       (can_craft(recipe_book, n, inventory) /\ SuppliesCraftable(inventory, J))
       => can_craft(recipe_book, n, J)

\* Bread can be crafted from the map, which holds just the required 2 Flour
\* and 1 Water, and from a map with more Flour and an ingredient more.
C15_Witness ==
    /\ "Bread" \in DOMAIN Recipes
    /\ DOMAIN inventory = {"Flour", "Water"}
    /\ inventory["Flour"].quantity = 2 /\ inventory["Water"].quantity = 1
    /\ last = Call("can_craft", "Bread", Some(TRUE), FALSE, FALSE)
    /\ can_craft(recipe_book, "Bread", inventory)
    /\ \E J \in BookInventories :
          /\ SuppliesCraftable(inventory, J)
          /\ J["Flour"].quantity > 2
          /\ can_craft(recipe_book, "Bread", J)

(***************************************************************************)
(* transfer_item between two inventories.                                  *)
(***************************************************************************)
TransferInit ==
    /\ recipe_book = RecipeBook_new
    /\ inventory = <<>>
    /\ last = Call("new", "", None, FALSE, FALSE)
    /\ crafted = [n \in RecipeNames |-> 0]
    /\ added_with = [n \in RecipeNames |-> 0]
    /\ add_log = [c \in CrafterNames |-> <<>>]
    /\ from_inventory \in Inventories
    /\ to_inventory \in Inventories
    /\ transfer_last = [op |-> "new", item_name |-> "", result |-> ""]
    /\ SlotsIdle
    /\ SmithIdle

TransferItem(item_name) ==
    \E from_order \in IterationOrders(DOMAIN from_inventory),
       to_order \in IterationOrders(DOMAIN to_inventory) :
       LET r == transfer_item(from_inventory, to_inventory, item_name, from_order, to_order) IN
       /\ from_inventory' = r.from
       /\ to_inventory' = r.to
       /\ transfer_last' = [op |-> "transfer_item", item_name |-> item_name, result |-> r.result]
       /\ UNCHANGED <<book_vars, slot_vars, smith_vars>>

TransferNext == \E item_name \in ItemNames : TransferItem(item_name)

SpecTransfer == TransferInit /\ [][TransferNext]_vars

TransferredNow(x) == transfer_last'.op = "transfer_item" /\ transfer_last'.item_name = x

\* C7: transfer_item either returns Ok, having emptied one source slot that held
\* the item and filled one formerly empty destination slot with it, or returns
\* Err and leaves both inventories slot for slot as they were.
C7_TransferAtomicity ==
    [][\A x \in ItemNames :
          TransferredNow(x)
          => \/ /\ transfer_last'.result = "Ok"
                /\ \E i \in SlotsHolding(from_inventory, x) :
                      from_inventory' = [from_inventory EXCEPT ![i] = None]
                /\ \E j \in DOMAIN to_inventory :
                      /\ to_inventory[j] = None
                      /\ to_inventory' = [to_inventory EXCEPT ![j] = Some(x)]
             \/ /\ transfer_last'.result # "Ok"
                /\ from_inventory' = from_inventory
                /\ to_inventory' = to_inventory]_vars

(***************************************************************************)
(* PlayerInventory on its own: an inventory built by new(num_slots) and    *)
(* its accessors called with any slot, inside the table or not.            *)
(***************************************************************************)
\* Slot arguments: those of the largest table and one beyond it.
SlotArgs == 0..NumSlots

SlotsInit ==
    /\ recipe_book = RecipeBook_new
    /\ inventory = <<>>
    /\ last = Call("new", "", None, FALSE, FALSE)
    /\ crafted = [n \in RecipeNames |-> 0]
    /\ added_with = [n \in RecipeNames |-> 0]
    /\ add_log = [c \in CrafterNames |-> <<>>]
    /\ TransferIdle
    /\ \E num_slots \in 0..NumSlots :
          /\ slots = PlayerInventory_new(num_slots)
          /\ slots_last = SlotsCall("new", 0, None, num_slots)
    /\ SmithIdle

GetItem(slot) ==
    /\ slots_last' = SlotsCall("get_item", slot, get_item(slots, slot), slots_last.num_slots)
    /\ UNCHANGED <<slots, book_vars, transfer_vars, smith_vars>>

AddItem(slot, item) ==
    /\ slots' = add_item(slots, slot, item)
    /\ slots_last' = SlotsCall("add_item", slot, None, slots_last.num_slots)
    /\ UNCHANGED <<book_vars, transfer_vars, smith_vars>>

RemoveItem(slot) ==
    /\ slots' = remove_item(slots, slot).slots
    /\ slots_last' = SlotsCall("remove_item", slot, remove_item(slots, slot).returned,
                               slots_last.num_slots)
    /\ UNCHANGED <<book_vars, transfer_vars, smith_vars>>

EmptySlot(slot) ==
    /\ slots' = empty_slot(slots, slot)
    /\ slots_last' = SlotsCall("empty_slot", slot, None, slots_last.num_slots)
    /\ UNCHANGED <<book_vars, transfer_vars, smith_vars>>

SlotsNext ==
    \/ \E slot \in SlotArgs : GetItem(slot)
    \/ \E slot \in SlotArgs, item \in ItemNames : AddItem(slot, item)
    \/ \E slot \in SlotArgs : RemoveItem(slot)
    \/ \E slot \in SlotArgs : EmptySlot(slot)

SpecSlots == SlotsInit /\ [][SlotsNext]_vars

\* C13: the slot indices present in an inventory are exactly 0 .. num_slots - 1,
\* num_slots being the capacity it was created with, whatever accessor was
\* called with whatever slot.
C13_SlotIndicesFixed == DOMAIN slots = 0..(slots_last.num_slots - 1)

(***************************************************************************)
(* RecipeSmith's operations as tasks.  A task is idle or runs one          *)
(* operation, one step per action; a step ends where the operation awaits  *)
(* (a lock, the sleep) or returns.                                         *)
(***************************************************************************)
get_player_inventory(inventories, player_id) ==
    IF player_id \in DOMAIN inventories THEN Some(inventories[player_id]) ELSE None

\* craft_item's inventory_map: one entry of quantity 1 per item name held.
inventory_map_of(player_inventory) ==
    [n \in { player_inventory[i][1] : i \in (DOMAIN player_inventory) \ EmptySlots(player_inventory) }
       |-> Ingredient(n, 1, TRUE)]

\* craft_item's first loop: every slot whose item's map quantity is 0 is cleared.
clear_consumed(player_inventory, map) ==
    [i \in DOMAIN player_inventory |->
        IF /\ player_inventory[i] # None
           /\ player_inventory[i][1] \in DOMAIN map
           /\ map[player_inventory[i][1]].quantity = 0
        THEN None ELSE player_inventory[i]]

\* The second loop without its break: the crafted item goes to every empty slot.
place_crafted_everywhere(player_inventory, crafted_item, order) ==
    [i \in DOMAIN player_inventory |->
        IF player_inventory[i] = None THEN Some(crafted_item) ELSE player_inventory[i]]

\* craft_item's second loop: the crafted item goes to the first empty slot met.
place_crafted(player_inventory, crafted_item, order) ==
    LET at == FirstIn(order, EmptySlots(player_inventory)) IN
    IF at = 0 THEN player_inventory
    ELSE [player_inventory EXCEPT ![order[at]] = Some(crafted_item)]

Event(type, data) == [event_type |-> type, data |-> data]

\* The success branch's events with recipe_mastered emitted first.
craft_events_mastered_first(book, player_id, recipe_name, crafted_item) ==
    (IF get_recipe(book, recipe_name) # None /\ is_mastered(get_recipe(book, recipe_name)[1])
     THEN <<Event("recipe_mastered", recipe_name)>> ELSE <<>>)
    \o <<Event("item_crafted", crafted_item), Event("inventory_changed", player_id)>>

\* The events of the success branch of craft_item.
craft_events(book, player_id, recipe_name, crafted_item) ==
    <<Event("item_crafted", crafted_item), Event("inventory_changed", player_id)>>
    \o (IF get_recipe(book, recipe_name) # None /\ is_mastered(get_recipe(book, recipe_name)[1])
        THEN <<Event("recipe_mastered", recipe_name)>> ELSE <<>>)

AfterGrant(p) ==
    CASE p = "craft_wait_book"   -> "craft_locked_book"
      [] p = "craft_wait_read"   -> "craft_read"
      [] p = "craft_wait_write"  -> "craft_write"
      [] p = "add_wait_book"     -> "add_locked"
      [] p = "look_wait_book"    -> "look_locked"
      [] p = "create_wait_write" -> "create_locked"
      [] p = "inv_wait_read"     -> "inv_read"

CraftPcs == {"craft_wait_book", "craft_locked_book", "craft_wait_read", "craft_read",
             "craft_sleep", "craft_wait_write", "craft_write", "craft_emit", "craft_failed"}

\* The operation of task t returns (or unwinds): its guards are dropped.
Finish(t, dropped, returned, events) ==
    /\ lock' = [L \in Locks |-> IF L \in dropped THEN Released(lock[L], t) ELSE lock[L]]
    /\ pc' = [pc EXCEPT ![t] = "idle"]
    /\ local' = [local EXCEPT ![t] = NoLocal]
    /\ smith_last' = [task |-> t, op |-> local[t].op, returned |-> returned, events |-> events]

Begin(t, op, player_id, name, recipe, num_slots, L, mode, wait_pc) ==
    /\ pc[t] = "idle"
    /\ lock' = [lock EXCEPT ![L] = Request(lock[L], t, mode)]
    /\ pc' = [pc EXCEPT ![t] = wait_pc]
    /\ local' = [local EXCEPT ![t] = [NoLocal EXCEPT !.op = op, !.player = player_id,
                                                       !.name = name, !.recipe = recipe,
                                                       !.num_slots = num_slots]]
    /\ smith_last' = NoReturn
    /\ UNCHANGED <<recipe_book, player_inventories, book_ghost, transfer_vars, slot_vars>>

\* The lock grants the request at the head of its queue.
Grant(L) ==
    /\ CanGrant(lock[L])
    /\ lock' = [lock EXCEPT ![L] = Granted(lock[L])]
    /\ pc' = [pc EXCEPT ![Head(lock[L].queue).task] = AfterGrant(pc[Head(lock[L].queue).task])]
    /\ smith_last' = NoReturn
    /\ UNCHANGED <<recipe_book, player_inventories, local, book_ghost, transfer_vars, slot_vars>>

\* craft_item: `self.recipe_book.write().await`
StartCraftItem(t, player_id, recipe_name) ==
    /\ recipe_name \in DOMAIN recipe_book.recipes
          => recipe_book.recipes[recipe_name].cook_count
             + Cardinality({ u \in Tasks : pc[u] \in CraftPcs /\ local[u].name = recipe_name })
             < MaxCook
    /\ Begin(t, "craft_item", player_id, recipe_name, None, 0,
             "recipe_book", "write", "craft_wait_book")

\* craft_item: get_player_inventory's `self.player_inventories.read().await`
CraftGetPlayerInventory(t) ==
    /\ pc[t] = "craft_locked_book"
    /\ lock' = [lock EXCEPT !["player_inventories"] = Request(lock["player_inventories"], t, "read")]
    /\ pc' = [pc EXCEPT ![t] = "craft_wait_read"]
    /\ smith_last' = NoReturn
    /\ UNCHANGED <<recipe_book, player_inventories, local, book_ghost, transfer_vars, slot_vars>>

\* craft_item from the clone of the inventory to the sleep inside craft: the
\* read guard is dropped, the inventory_map built, can_craft tested and the
\* ingredients consumed.
CraftValidate(t) ==
    /\ pc[t] = "craft_read"
    /\ LET got == get_player_inventory(player_inventories, local[t].player) IN
       IF got = None
       THEN Finish(t, Locks, None, <<>>)
       ELSE \E overflow_checks \in BOOLEAN :
            LET c == craft_consume(recipe_book, local[t].name,
                                   inventory_map_of(got[1]), overflow_checks) IN
            IF c.accepted /\ c.panicked
            THEN Finish(t, Locks, Some("panicked"), <<>>)
            ELSE /\ lock' = [lock EXCEPT !["player_inventories"] =
                                 Released(lock["player_inventories"], t)]
                 /\ pc' = [pc EXCEPT ![t] = IF c.accepted THEN "craft_sleep" ELSE "craft_failed"]
                 /\ local' = [local EXCEPT ![t].inv = got, ![t].map = c.inventory,
                                           ![t].outcome = IF c.accepted
                                                          THEN Some(c.recipe[1].outcome)
                                                          ELSE None]
                 /\ smith_last' = NoReturn
    /\ UNCHANGED <<recipe_book, player_inventories, book_ghost, transfer_vars, slot_vars>>

\* craft_item's else branch returning None without emitting anything.
CraftFailedSilently(t) ==
    /\ pc[t] = "craft_failed"
    /\ Finish(t, {"recipe_book"}, None, <<>>)
    /\ UNCHANGED <<recipe_book, player_inventories, book_ghost, transfer_vars, slot_vars>>

\* craft_item's else branch: crafting_failed is emitted and None returned.
CraftFailed(t) ==
    /\ pc[t] = "craft_failed"
    /\ Finish(t, {"recipe_book"}, None, <<Event("crafting_failed", local[t].name)>>)
    /\ UNCHANGED <<recipe_book, player_inventories, book_ghost, transfer_vars, slot_vars>>

\* The sleep inside craft ends: craft updates the cook_count and returns the
\* outcome, craft_item rewrites its copy of the inventory and calls
\* update_player_inventory (`self.player_inventories.write().await`).
CraftWake(t) ==
    /\ pc[t] = "craft_sleep"
    /\ recipe_book' = craft_update(recipe_book, local[t].name)
    /\ \E order \in IterationOrders(DOMAIN local[t].inv[1]) :
          local' = [local EXCEPT ![t].inv =
                       Some(place_crafted(clear_consumed(local[t].inv[1], local[t].map),
                                          local[t].outcome[1], order))]
    /\ lock' = [lock EXCEPT !["player_inventories"] = Request(lock["player_inventories"], t, "write")]
    /\ pc' = [pc EXCEPT ![t] = "craft_wait_write"]
    /\ smith_last' = NoReturn
    /\ UNCHANGED <<player_inventories, book_ghost, transfer_vars, slot_vars>>

\* update_player_inventory under the write guard: insert, drop the guard.
CraftWrite(t) ==
    /\ pc[t] = "craft_write"
    /\ player_inventories' = MapInsert(player_inventories, local[t].player, local[t].inv[1])
    /\ lock' = [lock EXCEPT !["player_inventories"] = Released(lock["player_inventories"], t)]
    /\ pc' = [pc EXCEPT ![t] = "craft_emit"]
    /\ smith_last' = NoReturn
    /\ UNCHANGED <<recipe_book, local, book_ghost, transfer_vars, slot_vars>>

\* craft_item emits its events and returns Some(crafted_item); the catalog's
\* write guard is dropped at the return.
CraftEmit(t) ==
    /\ pc[t] = "craft_emit"
    /\ Finish(t, {"recipe_book"}, local[t].outcome,
              craft_events(recipe_book, local[t].player, local[t].name, local[t].outcome[1]))
    /\ UNCHANGED <<recipe_book, player_inventories, book_ghost, transfer_vars, slot_vars>>

\* add_new_recipe: `self.recipe_book.write().await`
StartAddNewRecipe(t, recipe) ==
    Begin(t, "add_new_recipe", "", recipe.name, Some(recipe), 0,
          "recipe_book", "write", "add_wait_book")

AddNewRecipe(t) ==
    /\ pc[t] = "add_locked"
    /\ recipe_book' = add_recipe(recipe_book, local[t].recipe[1])
    /\ Finish(t, {"recipe_book"}, None, <<>>)
    /\ UNCHANGED <<player_inventories, book_ghost, transfer_vars, slot_vars>>

\* get_all_recipes and get_recipes_by_crafter: `self.recipe_book.read().await`
StartGetAllRecipes(t) ==
    Begin(t, "get_all_recipes", "", "", None, 0, "recipe_book", "read", "look_wait_book")

StartGetRecipesByCrafter(t, crafter_name) ==
    Begin(t, "get_recipes_by_crafter", "", crafter_name, None, 0,
          "recipe_book", "read", "look_wait_book")

\* get_all_recipes returns the stored recipes in the map's order: here, the
\* names in the order of get_recipes_for_crafter or, for all, no order (a set).
Lookup(t) ==
    /\ pc[t] = "look_locked"
    /\ Finish(t, {"recipe_book"},
              IF local[t].op = "get_all_recipes"
              THEN Some(DOMAIN recipe_book.recipes)
              ELSE Some(get_recipes_for_crafter(recipe_book, local[t].name)),
              <<>>)
    /\ UNCHANGED <<recipe_book, player_inventories, book_ghost, transfer_vars, slot_vars>>

\* on_game_event(PlayerJoined): create_player_inventory's
\* `self.player_inventories.write().await`
StartPlayerJoined(t, player_id, num_slots) ==
    Begin(t, "create_player_inventory", player_id, "", None, num_slots,
          "player_inventories", "write", "create_wait_write")

\* create_player_inventory that, still holding the registry's write guard,
\* goes on to read the catalog.
CreatePlayerInventoryThenCatalog(t) ==
    /\ pc[t] = "create_locked"
    /\ player_inventories' =
          MapInsert(player_inventories, local[t].player,
                    PlayerInventory_new(local[t].num_slots))
    /\ lock' = [lock EXCEPT !["recipe_book"] = Request(lock["recipe_book"], t, "read")]
    /\ pc' = [pc EXCEPT ![t] = "look_wait_book"]
    /\ local' = [local EXCEPT ![t].op = "get_all_recipes"]
    /\ smith_last' = NoReturn
    /\ UNCHANGED <<recipe_book, book_ghost, transfer_vars, slot_vars>>

CreatePlayerInventory(t) ==
    /\ pc[t] = "create_locked"
    /\ player_inventories' =
          MapInsert(player_inventories, local[t].player,
                    PlayerInventory_new(local[t].num_slots))
    /\ Finish(t, {"player_inventories"}, None, <<>>)
    /\ UNCHANGED <<recipe_book, book_ghost, transfer_vars, slot_vars>>

\* The contents of an inventory: how many slots hold each item name.
Contents(player_inventory) ==
    [x \in { player_inventory[i][1] : i \in (DOMAIN player_inventory) \ EmptySlots(player_inventory) }
       |-> Cardinality(SlotsHolding(player_inventory, x))]

get_player_inventory_contents(inventories, player_id) ==
    LET got == get_player_inventory(inventories, player_id) IN
    IF got = None THEN None ELSE Some(Contents(got[1]))

\* Both change a slot of the clone get_player_inventory returned; the clone is
\* dropped at the return (`self.get_player_inventory("player_id");` builds a
\* future that is never awaited).
add_item_to_player_inventory(inventories, player_id, item) ==
    LET got == get_player_inventory(inventories, player_id) IN
    IF got = None THEN "Err: Player inventory not found"
    ELSE IF EmptySlots(got[1]) # {} THEN "Ok"
    ELSE "Err: Inventory is full"

remove_item_from_player_inventory(inventories, player_id, item_name) ==
    LET got == get_player_inventory(inventories, player_id) IN
    IF got = None THEN "Err: Player inventory not found"
    ELSE IF SlotsHolding(got[1], item_name) # {} THEN "Ok"
    ELSE "Err: Item not found in inventory"

InventoryOps == {"get_player_inventory_contents", "add_item_to_player_inventory",
                 "remove_item_from_player_inventory"}

\* The three begin with get_player_inventory's `self.player_inventories.read().await`
StartInventoryOp(t, op, player_id, item_name) ==
    Begin(t, op, player_id, item_name, None, 0, "player_inventories", "read", "inv_wait_read")

InventoryOp(t) ==
    /\ pc[t] = "inv_read"
    /\ Finish(t, {"player_inventories"},
              CASE local[t].op = "get_player_inventory_contents" ->
                       get_player_inventory_contents(player_inventories, local[t].player)
                [] local[t].op = "add_item_to_player_inventory" ->
                       Some(add_item_to_player_inventory(player_inventories, local[t].player,
                                                         local[t].name))
                [] local[t].op = "remove_item_from_player_inventory" ->
                       Some(remove_item_from_player_inventory(player_inventories,
                                                              local[t].player, local[t].name)),
              <<>>)
    /\ UNCHANGED <<recipe_book, player_inventories, book_ghost, transfer_vars, slot_vars>>

\* The catalog after initialize_recipe_smith imported its files, and the
\* recipes add_new_recipe is called with.
SmithRecipes ==
    { Recipe("Flour", <<>>, "Flour", <<>>, 1, MasteryThreshold - 1) }

SmithCatalog ==
    add_recipe(RecipeBook_new,
               Recipe("Flour", <<>>, "Flour", <<"Oven">>, 1, MasteryThreshold - 1))

SmithRecipeNames == {"Flour", "Bread"}
SmithItemNames == {"Flour"}

SmithInit ==
    /\ recipe_book = SmithCatalog
    /\ inventory = <<>>
    /\ last = Call("new", "", None, FALSE, FALSE)
    /\ crafted = [n \in RecipeNames |-> 0]
    /\ added_with = [n \in RecipeNames |-> 0]
    /\ add_log = [c \in CrafterNames |-> <<>>]
    /\ TransferIdle
    /\ SlotsIdle
    /\ SmithIdle

SmithNext ==
    \/ \E L \in Locks : Grant(L)
    \/ \E t \in Tasks :
          \/ \E player_id \in Players, recipe_name \in SmithRecipeNames :
                StartCraftItem(t, player_id, recipe_name)
          \/ CraftGetPlayerInventory(t)
          \/ CraftValidate(t)
          \/ CraftFailed(t)
          \/ CraftWake(t)
          \/ CraftWrite(t)
          \/ CraftEmit(t)
          \/ \E recipe \in SmithRecipes : StartAddNewRecipe(t, recipe)
          \/ AddNewRecipe(t)
          \/ StartGetAllRecipes(t)
          \/ \E crafter_name \in CrafterNames : StartGetRecipesByCrafter(t, crafter_name)
          \/ Lookup(t)
          \/ \E player_id \in Players : StartPlayerJoined(t, player_id, SmithSlots)
          \/ CreatePlayerInventory(t)
          \/ \E op \in InventoryOps, player_id \in Players, item_name \in SmithItemNames :
                StartInventoryOp(t, op, player_id, item_name)
          \/ InventoryOp(t)

SpecSmith == SmithInit /\ [][SmithNext]_vars

(***************************************************************************)
(* Properties of the concurrent operations.                                *)
(***************************************************************************)
HoldsExclusive(t, L) == Holds(t, L) /\ lock[L].mode = "write"

\* C8: a craft_item suspended in the cook-time sleep holds no exclusive lock on
\* the catalog or the registry.
C8_NoExclusiveLockWhileCooking ==
    \A t \in Tasks : pc[t] = "craft_sleep" => \A L \in Locks : ~HoldsExclusive(t, L)

\* Task t's craft_item has read its player's inventory and not yet written it back.
InCraftWindow(t) == pc[t] \in {"craft_sleep", "craft_wait_write", "craft_write"}

\* C9: between a craft_item's read of its player's inventory and its write-back,
\* no other operation changes that player's registry entry.
C9_NoWriteInsideCraftWindow ==
    [][\A t \in Tasks :
          (InCraftWindow(t) /\ ~(pc[t] = "craft_write" /\ pc'[t] = "craft_emit"))
          => get_player_inventory(player_inventories', local[t].player)
             = get_player_inventory(player_inventories, local[t].player)]_vars

\* The tasks whose progress task t's pending lock request waits for: the
\* holders of the lock and the requests queued ahead of it.
Blockers(t) ==
    UNION { IF CanGrant(lock[L]) /\ Head(lock[L].queue).task = t THEN {}
            ELSE (lock[L].holders \ {t})
                 \cup { lock[L].queue[j].task :
                          j \in { k \in 1..Len(lock[L].queue) :
                                    \E i \in 1..Len(lock[L].queue) :
                                       lock[L].queue[i].task = t /\ k < i } }
            : L \in { K \in Locks : Waits(t, K) } }

\* A set of tasks each of which waits for a lock behind another of the set.
Deadlocked ==
    \E S \in (SUBSET Tasks) \ {{}} :
       \A t \in S : (\E L \in Locks : Waits(t, L)) /\ Blockers(t) \cap S # {}

\* C10: no operation waits for the catalog lock while it holds the registry
\* lock, and no set of operations waits on each other's locks.
C10_LockOrder ==
    /\ \A t \in Tasks : Waits(t, "recipe_book") => ~Holds(t, "player_inventories")
    /\ ~Deadlocked

\* A craft_item holds the catalog and waits for the registry, which another
\* operation holds for writing, while that one is not waiting for anything.
C10_Witness ==
    \E t, u \in Tasks :
       /\ t # u
       /\ Holds(t, "recipe_book") /\ Waits(t, "player_inventories")
       /\ HoldsExclusive(u, "player_inventories")
       /\ \A L \in Locks : ~Waits(u, L)

(***************************************************************************)
(* RecipeSmith's operations called one at a time: one task runs them, one  *)
(* after the other, on a catalog of four recipes and the inventory of the  *)
(* player who joined.                                                      *)
(***************************************************************************)
\* Flour is made from nothing; Bread from one Flour; Dough lists Flour twice;
\* Cake asks for two Flour and a Bread.  Stew is no recipe.
EngineRecipes ==
    { Recipe("Flour", <<>>, "Flour", <<>>, 1, MasteryThreshold - 2),
      Recipe("Bread", <<Ingredient("Flour", 1, TRUE)>>, "Bread", <<>>, 1, MasteryThreshold - 1),
      Recipe("Dough", <<Ingredient("Flour", 1, TRUE), Ingredient("Flour", 1, TRUE)>>,
             "Dough", <<>>, 1, MasteryThreshold - 1),
      Recipe("Cake", <<Ingredient("Bread", 1, TRUE), Ingredient("Flour", 2, TRUE)>>,
             "Cake", <<>>, 1, 0) }

EngineRecipeNames == {"Flour", "Bread", "Dough", "Cake", "Stew"}
EngineItemNames == {"Flour", "Bread", "Dough"}

RECURSIVE AddEach(_, _)
AddEach(book, recipes) ==
    IF recipes = {} THEN book
    ELSE LET r == CHOOSE x \in recipes : TRUE IN
         AddEach(add_recipe(book, r), recipes \ {r})

\* The catalog after initialize_recipe_smith imported the recipes.
EngineCatalog == AddEach(RecipeBook_new, EngineRecipes)

EngineInit ==
    /\ recipe_book = EngineCatalog
    /\ inventory = <<>>
    /\ last = Call("new", "", None, FALSE, FALSE)
    /\ crafted = [n \in RecipeNames |-> 0]
    /\ added_with = [n \in RecipeNames |-> 0]
    /\ add_log = [c \in CrafterNames |-> <<>>]
    /\ TransferIdle
    /\ SlotsIdle
    /\ SmithIdle

EngineNext ==
    \/ \E L \in Locks : Grant(L)
    \/ \E player_id \in Players, recipe_name \in EngineRecipeNames :
          StartCraftItem("t1", player_id, recipe_name)
    \/ CraftGetPlayerInventory("t1")
    \/ CraftValidate("t1")
    \/ CraftFailed("t1")
    \/ CraftWake("t1")
    \/ CraftWrite("t1")
    \/ CraftEmit("t1")
    \/ \E recipe \in EngineRecipes : StartAddNewRecipe("t1", recipe)
    \/ AddNewRecipe("t1")
    \/ StartPlayerJoined("t1", "p1", NumSlots)
    \/ CreatePlayerInventory("t1")
    \/ \E op \in InventoryOps, player_id \in Players, item_name \in EngineItemNames :
          StartInventoryOp("t1", op, player_id, item_name)
    \/ InventoryOp("t1")

SpecEngine == EngineInit /\ [][EngineNext]_vars

(***************************************************************************)
(* Properties of craft_item and the inventory operations.                  *)
(***************************************************************************)
\* The recipe is unknown, or one of its ingredients is held in no slot of the
\* inventory or is required in a quantity above the 1 a held name counts for.
Lacking(book, n, player_inventory) ==
    \/ n \notin DOMAIN book.recipes
    \/ \E i \in 1..Len(book.recipes[n].ingredients) :
          LET g == book.recipes[n].ingredients[i] IN
          \/ SlotsHolding(player_inventory, g.name) = {}
          \/ g.quantity > 1

CookCounts(book) == [n \in DOMAIN book.recipes |-> book.recipes[n].cook_count]

\* C11: a craft_item for a player with an inventory whose recipe is unknown or
\* whose ingredients are not satisfied goes to the failure branch and nowhere
\* else; it emits nothing before, returns None with the single event
\* crafting_failed(recipe name), and no step of it changes the registry or a
\* cook_count.
C11_RejectedCraftItem ==
    [][\A t \in Tasks :
          /\ (/\ pc[t] = "craft_read" /\ pc'[t] # "craft_read"
              /\ local[t].player \in DOMAIN player_inventories
              /\ Lacking(recipe_book, local[t].name, player_inventories[local[t].player]))
             => /\ pc'[t] = "craft_failed"
                /\ smith_last' = NoReturn
                /\ player_inventories' = player_inventories
                /\ CookCounts(recipe_book') = CookCounts(recipe_book)
          /\ (pc[t] = "craft_failed" /\ pc'[t] # "craft_failed")
             => /\ Lacking(recipe_book, local[t].name, player_inventories[local[t].player])
                /\ smith_last' = [task |-> t, op |-> "craft_item", returned |-> None,
                                  events |-> <<Event("crafting_failed", local[t].name)>>]
                /\ player_inventories' = player_inventories
                /\ CookCounts(recipe_book') = CookCounts(recipe_book)]_vars

\* craft_item("p1", "Cake") was just rejected while p1 holds Flour (one Flour
\* counted, two required).
C11_Witness ==
    /\ smith_last.op = "craft_item"
    /\ smith_last.returned = None
    /\ smith_last.events = <<Event("crafting_failed", "Cake")>>
    /\ "p1" \in DOMAIN player_inventories
    /\ SlotsHolding(player_inventories["p1"], "Flour") # {}

\* C12: a craft_item whose validation succeeded (can_craft was true of the
\* player's inventory_map, so consumption began) goes on to the cook-time sleep,
\* from where it commits and returns; it never ends at the consumption.
C12_ValidatedCraftCompletes ==
    [][\A t \in Tasks :
          (/\ pc[t] = "craft_read" /\ pc'[t] # "craft_read"
           /\ local[t].player \in DOMAIN player_inventories
           /\ can_craft(recipe_book, local[t].name,
                        inventory_map_of(player_inventories[local[t].player])))
          => pc'[t] = "craft_sleep"]_vars

\* How many slots of the inventory hold item x.
Count(player_inventory, x) == Cardinality(SlotsHolding(player_inventory, x))

\* C14: add_item_to_player_inventory and remove_item_from_player_inventory
\* return an error and leave the registry alone when the player has no
\* inventory, no slot is empty (add) or no slot holds the item (remove);
\* otherwise they return Ok and the player's inventory in the registry holds
\* one more, or one fewer, item of that name.
C14_InventoryOpsTakeEffect ==
    [][\A t \in Tasks :
          (pc[t] = "inv_read" /\ pc'[t] = "idle")
          => LET p == local[t].player
                 x == local[t].name
                 had == p \in DOMAIN player_inventories
             IN  CASE local[t].op = "add_item_to_player_inventory" ->
                         IF ~had \/ EmptySlots(player_inventories[p]) = {}
                         THEN /\ smith_last'.returned # Some("Ok")
                              /\ player_inventories' = player_inventories
                         ELSE /\ smith_last'.returned = Some("Ok")
                              /\ p \in DOMAIN player_inventories'
                              /\ Count(player_inventories'[p], x)
                                 = Count(player_inventories[p], x) + 1
                    [] local[t].op = "remove_item_from_player_inventory" ->
                         IF ~had \/ SlotsHolding(player_inventories[p], x) = {}
                         THEN /\ smith_last'.returned # Some("Ok")
                              /\ player_inventories' = player_inventories
                         ELSE /\ smith_last'.returned = Some("Ok")
                              /\ p \in DOMAIN player_inventories'
                              /\ Count(player_inventories'[p], x)
                                 = Count(player_inventories[p], x) - 1
                    [] OTHER -> TRUE]_vars

\* The inventory with every slot cleared whose item's quantity in the view is 0.
WithoutSpent(player_inventory, view) ==
    [i \in DOMAIN player_inventory |->
        IF /\ player_inventory[i] # None
           /\ player_inventory[i][1] \in DOMAIN view
           /\ view[player_inventory[i][1]].quantity = 0
        THEN None ELSE player_inventory[i]]

\* C16: the inventory a successful craft_item writes to the registry is the one
\* it read, with the slots cleared whose item has quantity 0 in the view after
\* consumption and the outcome put in one slot that is empty after the
\* clearing, or in none when none is empty; the slot indices are the same, and
\* the craft returns the outcome either way.
C16_CommitStep ==
    [][\A t \in Tasks :
          /\ (pc[t] = "craft_write" /\ pc'[t] = "craft_emit")
             => LET read == player_inventories[local[t].player]
                    written == player_inventories'[local[t].player]
                    cleared == WithoutSpent(read, local[t].map)
                IN  /\ DOMAIN written = DOMAIN read
                    /\ IF EmptySlots(cleared) = {}
                       THEN written = cleared
                       ELSE \E j \in EmptySlots(cleared) :
                               written = [cleared EXCEPT ![j] = Some(local[t].outcome[1])]
          /\ (pc[t] = "craft_emit" /\ pc'[t] = "idle")
             => /\ local[t].outcome # None
                /\ smith_last'.returned = local[t].outcome]_vars

\* craft_item("p1", "Bread") just returned: the Flour slots are cleared, one
\* slot holds the Bread and another is empty.
C16_Witness ==
    /\ smith_last.op = "craft_item"
    /\ smith_last.returned = Some("Bread")
    /\ "p1" \in DOMAIN player_inventories
    /\ Count(player_inventories["p1"], "Bread") = 1
    /\ Count(player_inventories["p1"], "Flour") = 0
    /\ EmptySlots(player_inventories["p1"]) # {}

\* C17: a successful craft_item emits nothing until it has written the
\* inventory to the registry; then it emits item_crafted(outcome),
\* inventory_changed(player id) and, exactly when the recipe's cook_count, which
\* this craft raised by 1, is at least 10, recipe_mastered(recipe name), in
\* that order and nothing else.
C17_EventOrder ==
    [][\A t \in Tasks :
          /\ (pc[t] \in {"craft_read", "craft_sleep", "craft_wait_write", "craft_write"}
              /\ pc'[t] \in {"craft_sleep", "craft_wait_write", "craft_write", "craft_emit"})
             => smith_last'.events = <<>>
          /\ (pc[t] = "craft_sleep" /\ pc'[t] # "craft_sleep")
             => recipe_book'.recipes[local[t].name].cook_count
                = recipe_book.recipes[local[t].name].cook_count + 1
          /\ (pc[t] # "craft_emit" /\ pc'[t] = "craft_emit")
             => /\ pc[t] = "craft_write"
                /\ player_inventories'[local[t].player] = local[t].inv[1]
          /\ (pc[t] = "craft_emit" /\ pc'[t] = "idle")
             => /\ smith_last'.returned = local[t].outcome
                /\ smith_last'.events =
                      <<Event("item_crafted", local[t].outcome[1]),
                        Event("inventory_changed", local[t].player)>>
                      \o (IF recipe_book.recipes[local[t].name].cook_count >= 10
                          THEN <<Event("recipe_mastered", local[t].name)>> ELSE <<>>)]_vars

\* craft_item("p1", "Bread") just returned with the three events, the craft
\* having raised Bread's cook_count to 10.
C17_Witness ==
    /\ smith_last.op = "craft_item"
    /\ smith_last.events = <<Event("item_crafted", "Bread"), Event("inventory_changed", "p1"),
                             Event("recipe_mastered", "Bread")>>
    /\ recipe_book.recipes["Bread"].cook_count = 10

\* C18: a craft_item for a player with an inventory goes on to cook, commit
\* and return the outcome exactly when the recipe exists and each of its
\* ingredients is held in some slot and required in a quantity of at most 1,
\* however many slots hold that name.
C18_ValidationView ==
    [][\A t \in Tasks :
          (/\ pc[t] = "craft_read" /\ pc'[t] # "craft_read"
           /\ local[t].player \in DOMAIN player_inventories)
          => (pc'[t] = "craft_sleep"
              <=> ~Lacking(recipe_book, local[t].name,
                           player_inventories[local[t].player]))]_vars

\* C19: the inventory a successful craft_item writes to the registry holds, of
\* every item name, as many items as the one it read less the quantity the
\* recipe requires of that name (and, of the outcome's name, possibly the one
\* crafted item more).
C19_ConsumedAsRequired ==
    [][\A t \in Tasks :
          (pc[t] = "craft_write" /\ pc'[t] = "craft_emit")
          => LET read == player_inventories[local[t].player]
                 written == player_inventories'[local[t].player]
             IN  \A k \in EngineRecipeNames :
                    LET kept == Count(read, k) - Required(local[t].name, k) IN
                    \/ Count(written, k) = kept
                    \/ k = local[t].outcome[1] /\ Count(written, k) = kept + 1]_vars

====
